---- MODULE Spec2Model ----
(***************************************************************************)
(* gl-pipeline-monitor: the refresh / reconciliation / auto-retry engine   *)
(* of PipelineMonitor (src/main.py), with the data model of src/models.py  *)
(* and the remote calls of src/gitlab.py as the environment.               *)
(*                                                                         *)
(* The program is one asyncio event loop.  A step of the model is what one *)
(* coroutine runs between two suspension points (an await of a remote      *)
(* call): an action named Recv... is the resumption of a coroutine when    *)
(* the remote call it awaits returns or raises, up to its next await.      *)
(***************************************************************************)
EXTENDS Integers, Sequences, FiniteSets, TLC

(***************************************************************************)
(* Program constants and bounds of the model.                              *)
(***************************************************************************)
REFRESH_INTERVAL == 30

\* Refresh cycles a behaviour launches, the one of on_mount included (one more
\* where three cycles are needed: EnvDrop).
MaxCycles == 2

\* Keys the user presses on an MR in a behaviour (retry toggle, row selection).
MaxClicks == 2

\* RetryLog keeps its last max_lines lines; the model keeps the last MaxLog.
MaxLog == 2

\* The longest text and the longest query fuzzy_match is evaluated on.
MaxText == 4

MaxQuery == 3

\* The longest collection _visible_mrs is evaluated on.
MaxShown == 3

\* The longest job list and the largest job id Pipeline.stages is evaluated on.
MaxJobs == 3
MaxJobId == 4

\* The ids of the refresh cycles (of the _do_refresh tasks), in launch order.
Cycles == 1..(MaxCycles + 1)

(***************************************************************************)
(* Data model (src/models.py).  An absent pipeline (None) is NoPipeline,   *)
(* the three-valued approval is "None" / "True" / "False".                 *)
(***************************************************************************)
NoPipeline == [id |-> 0, status |-> "none", jobs |-> << >>]

NewPipeline(pid, st) == [id |-> pid, status |-> st, jobs |-> << >>]

NewMR(k) ==
    [iid |-> k, pipeline |-> NoPipeline, approved |-> "None",
     unresolved_threads |-> 0, auto_retry |-> FALSE, expanded |-> FALSE]

is_failed(j) == j.status = "failed"

is_active(p) == p.status \in {"running", "pending", "created", "waiting_for_resource"}

(***************************************************************************)
(* The environment: what the remote calls of src/gitlab.py may answer.     *)
(* "raise" is a call that raises (a transport or parse failure).           *)
(***************************************************************************)
JobBuild == [id |-> 1, name |-> "build", stage |-> "build", status |-> "success", allow_failure |-> FALSE]
JobTest == [id |-> 2, name |-> "test", stage |-> "test", status |-> "failed", allow_failure |-> FALSE]
JobLint == [id |-> 3, name |-> "lint", stage |-> "lint", status |-> "failed", allow_failure |-> TRUE]
JobUnit == [id |-> 4, name |-> "unit", stage |-> "test", status |-> "failed", allow_failure |-> FALSE]

IIDs == {1, 2}

\* The positions of an MR list.
Positions == 1..Cardinality(IIDs)

\* An environment: the caps on a behaviour and the answers of the remote calls.
\*   cap       : the refresh cycles launched (the one of on_mount included)
\*   clicks    : the keys the user presses on an MR (retry toggle, row selection)
\*   lists     : the MR lists fetch_mrs may return (iids, in server order)
\*   pipelines : the statuses of the pipeline fetch_pipeline may return ("none": no pipeline)
\*   jobs      : the job lists fetch_jobs may return
\*   retries   : the outcomes of retry_job
\*   raises    : the fetch calls that may raise: "user" (fetch_current_user_id),
\*               "list" (fetch_mrs), "pipeline", "approvals", "threads",
\*               "jobs" (fetch_jobs, whoever calls it)

\* The scheduler: the timer and the countdown, one MR and few answers.
EnvSched ==
    [cap |-> MaxCycles, clicks |-> MaxClicks - 1,
     lists |-> {<< >>, <<1>>},
     pipelines |-> {"failed"},
     jobs |-> {<<JobTest>>},
     retries |-> {"ok"},
     raises |-> {"list"}]

\* The transient flags: every MR list over two MRs, the user toggling them.
EnvFlags ==
    [cap |-> MaxCycles, clicks |-> MaxClicks + 1,
     lists |-> {<< >>, <<1>>, <<2>>, <<1, 2>>, <<2, 1>>},
     pipelines |-> {"failed"},
     jobs |-> {<<JobTest>>},
     retries |-> {"ok"},
     raises |-> {"user", "list"}]

\* MRs that come and go, over three cycles.
EnvDrop ==
    [cap |-> MaxCycles + 1, clicks |-> MaxClicks,
     lists |-> {<< >>, <<1>>, <<2>>},
     pipelines |-> {"failed"},
     jobs |-> {<<JobTest>>},
     retries |-> {"ok"},
     raises |-> {}]

\* The auto-retry controller: every job list, every outcome of a retry.
EnvRetry ==
    [cap |-> MaxCycles, clicks |-> MaxClicks,
     lists |-> {<<1, 2>>},
     pipelines |-> {"failed"},
     jobs |-> {<< >>, <<JobLint>>, <<JobUnit, JobTest>>, <<JobBuild, JobTest, JobLint>>},
     retries |-> {"ok", "err", "raise"},
     raises |-> {"jobs"}]

\* The enrichment: two MRs, every fetch of an enrich task may raise.
EnvEnrich ==
    [cap |-> MaxCycles, clicks |-> MaxClicks,
     lists |-> {<<1, 2>>},
     pipelines |-> {"running"},
     jobs |-> {<<JobTest>>},
     retries |-> {"ok"},
     raises |-> {"pipeline", "approvals", "threads", "jobs"}]

\* The approval and the unresolved-thread count the server holds for MR k.
SrvApproved(k) == IF k = 1 THEN "True" ELSE "False"
SrvThreads(k) == k

(***************************************************************************)
(* State.                                                                  *)
(***************************************************************************)
VARIABLES
    seconds_until_refresh,  \* PipelineMonitor.seconds_until_refresh
    refreshing,             \* PipelineMonitor._refreshing
    current_user_id,        \* PipelineMonitor._current_user_id ("None" or "uid")
    heap,                   \* the MR lists: heap[0] the initial empty list, heap[c] the list built by cycle c
    mrs,                    \* PipelineMonitor.mrs: the list it refers to (an index of heap)
    launched,               \* number of _do_refresh tasks created so far
    pc,                     \* pc[c]: where the task of cycle c stands
    enrich,                 \* enrich[c][i]: where the enrich task of the i-th MR of heap[c] stands
    retry_mrs,              \* retry_mrs[c]: the iids _retry_check of cycle c has still to handle (head: current)
    failed_jobs,            \* failed_jobs[c]: the jobs _auto_retry_mr has still to retry (head: request in flight)
    ui,                     \* the async message handler in flight (toggle_retry, row_selected), if any
    clicks,                 \* number of keys the user pressed on an MR so far
    log,                    \* the lines of the RetryLog widget (the last MaxLog)
    fn                      \* the call of a pure function under evaluation: its arguments, its result

vars == <<seconds_until_refresh, refreshing, current_user_id, heap, mrs, launched,
          pc, enrich, retry_mrs, failed_jobs, ui, clicks, log, fn>>

\* No pure function is under evaluation.
NoCall == [op |-> "none"]

UiIdle == [pc |-> "idle", c |-> 0, iid |-> 0, failed_jobs |-> << >>]

\* The state of PipelineMonitor after __init__ and on_mount.
Boot ==
    /\ seconds_until_refresh = REFRESH_INTERVAL
    /\ refreshing = FALSE
    /\ current_user_id = "None"
    /\ heap = [c \in {0} \cup Cycles |-> << >>]
    /\ mrs = 0
    /\ launched = 1                     \* on_mount schedules the first refresh
    /\ pc = [c \in Cycles |-> IF c = 1 THEN "scheduled" ELSE "idle"]
    /\ enrich = [c \in Cycles |-> << >>]
    /\ retry_mrs = [c \in Cycles |-> << >>]
    /\ failed_jobs = [c \in Cycles |-> << >>]
    /\ ui = UiIdle
    /\ clicks = 0
    /\ log = << >>

Init == Boot /\ fn = NoCall

(***************************************************************************)
(* Helpers.                                                                *)
(***************************************************************************)
\* RichLog.write: append a line, keeping the last MaxLog lines.
Write(L, line) ==
    LET a == Append(L, line)
    IN  IF Len(a) > MaxLog THEN SubSeq(a, Len(a) - MaxLog + 1, Len(a)) ELSE a

LineFetchError == [kind |-> "fetch_error", iid |-> 0, job |-> 0]
LineNoop(k) == [kind |-> "noop", iid |-> k, job |-> 0]
LineRetrying(k, j) == [kind |-> "retrying", iid |-> k, job |-> j.id]
LineOk == [kind |-> "retry_ok", iid |-> 0, job |-> 0]
LineFailed == [kind |-> "retry_failed", iid |-> 0, job |-> 0]
LineToggle(k, on) == [kind |-> IF on THEN "toggle_on" ELSE "toggle_off", iid |-> k, job |-> 0]

HasMR(L, k) == \E i \in 1..Len(L) : L[i].iid = k

Pos(L, k) == CHOOSE i \in 1..Len(L) : L[i].iid = k

\* self.mrs
SelfMrs == heap[mrs]

\* ui.pc = "crashed": a message handler raised; Textual's message pump hands an
\* unhandled exception of a handler to the app, which stops.
Alive == ui.pc # "crashed"

\* The lists the program can still reach: the one self.mrs refers to, the list
\* of a cycle whose task has not ended, the list holding the MR a handler in
\* flight works on.  Python frees the others: the model empties them.
Reachable(c, m, p, u) ==
    \/ c = m
    \/ c \in Cycles /\ p[c] \in {"user", "list", "enrich", "rjobs", "rretry"}
    \/ u.pc \in {"tjobs", "tretry", "xjobs"} /\ u.c = c

\* The heap after a step that leaves the lists h, with self.mrs, pc and ui as
\* the step leaves them.
Heap(h) ==
    heap' = [c \in {0} \cup Cycles |-> IF Reachable(c, mrs', pc', ui') THEN h[c] ELSE << >>]

\* A reconciliation that carries auto_retry over and forgets expanded.
ReconcileRetryOnly(prev, fresh) ==
    [i \in 1..Len(fresh) |->
        IF HasMR(prev, fresh[i].iid)
        THEN [fresh[i] EXCEPT !.auto_retry = prev[Pos(prev, fresh[i].iid)].auto_retry,
                              !.expanded = FALSE]
        ELSE [fresh[i] EXCEPT !.auto_retry = FALSE, !.expanded = FALSE]]

\* _do_refresh: old_state.get(mr.iid, (False, False)) and the two assignments.
Reconcile(prev, fresh) ==
    [i \in 1..Len(fresh) |->
        IF HasMR(prev, fresh[i].iid)
        THEN [fresh[i] EXCEPT !.auto_retry = prev[Pos(prev, fresh[i].iid)].auto_retry,
                              !.expanded = prev[Pos(prev, fresh[i].iid)].expanded]
        ELSE [fresh[i] EXCEPT !.auto_retry = FALSE, !.expanded = FALSE]]

\* A selection that takes every failed job, allowed to fail or not.
FailedJobsAny(mr) == SelectSeq(mr.pipeline.jobs, is_failed)

\* _auto_retry_mr: failed_jobs = [j for j in mr.pipeline.jobs if j.is_failed and not j.allow_failure]
FailedJobs(mr) ==
    SelectSeq(mr.pipeline.jobs, LAMBDA j : is_failed(j) /\ ~j.allow_failure)

\* _retry_check: retry_mrs = [mr for mr in self.mrs if mr.auto_retry and mr.pipeline]
RetryMrs(L) ==
    LET sel == SelectSeq(L, LAMBDA mr : mr.auto_retry /\ mr.pipeline # NoPipeline)
    IN  [i \in 1..Len(sel) |-> sel[i].iid]

\* enrich: if mr.pipeline and (mr.pipeline.is_active or mr.expanded)
WantsJobs(mr) == mr.pipeline # NoPipeline /\ (is_active(mr.pipeline) \/ mr.expanded)

\* What fetch_pipeline returns for MR k when the server answers status st.
PipelineOf(k, st) == IF st = "none" THEN NoPipeline ELSE NewPipeline(k, st)

(***************************************************************************)
(* Refresh scheduler (main.py: _schedule_refresh, _tick,                   *)
(* action_force_refresh).                                                  *)
(***************************************************************************)
\* A scheduler that launches no cycle while one is in flight.
ScheduleRefreshIfIdle ==
    IF refreshing
    THEN UNCHANGED <<launched, pc>>
    ELSE /\ launched' = launched + 1
         /\ pc' = [pc EXCEPT ![launched + 1] = "scheduled"]

\* _schedule_refresh: asyncio.ensure_future(self._do_refresh()) creates a task
\* that starts at a later turn of the event loop.
ScheduleRefresh ==
    /\ launched' = launched + 1
    /\ pc' = [pc EXCEPT ![launched + 1] = "scheduled"]

\* A _tick that resets the countdown one tick late, below 0 instead of at 0.
TickResetsLate(E) ==
    /\ Alive
    /\ IF seconds_until_refresh - 1 < 0
       THEN /\ launched < E.cap
            /\ seconds_until_refresh' = REFRESH_INTERVAL
            /\ ScheduleRefresh
       ELSE /\ seconds_until_refresh' = seconds_until_refresh - 1
            /\ UNCHANGED <<launched, pc>>
    /\ UNCHANGED <<fn, refreshing, current_user_id, heap, mrs, enrich, retry_mrs,
                   failed_jobs, ui, clicks, log>>

\* _tick and action_force_refresh are synchronous: one step each.  They are
\* taken whenever the app runs, also while a handler awaits a remote call.
Tick(E) ==
    /\ Alive
    /\ IF seconds_until_refresh - 1 <= 0
       THEN /\ launched < E.cap
            /\ seconds_until_refresh' = REFRESH_INTERVAL
            /\ ScheduleRefresh
       ELSE /\ seconds_until_refresh' = seconds_until_refresh - 1
            /\ UNCHANGED <<launched, pc>>
    /\ UNCHANGED <<fn, refreshing, current_user_id, heap, mrs, enrich, retry_mrs,
                   failed_jobs, ui, clicks, log>>

ForceRefresh(E) ==
    /\ Alive
    /\ launched < E.cap
    /\ seconds_until_refresh' = REFRESH_INTERVAL
    /\ ScheduleRefresh
    /\ UNCHANGED <<fn, refreshing, current_user_id, heap, mrs, enrich, retry_mrs,
                   failed_jobs, ui, clicks, log>>

(***************************************************************************)
(* A refresh cycle (main.py: _do_refresh).  pc[c]:                         *)
(*   idle       no task yet                                                *)
(*   scheduled  task created, not started                                  *)
(*   user       awaiting fetch_current_user_id                             *)
(*   list       awaiting fetch_mrs                                         *)
(*   enrich     awaiting asyncio.gather of the enrich tasks                *)
(*   rjobs      in _retry_check, awaiting fetch_jobs of Head(retry_mrs[c]) *)
(*   rretry     in _auto_retry_mr, awaiting retry_job(Head(failed_jobs[c]))*)
(*   done       returned (the finally clause has run)                      *)
(*   crashed    ended by an exception (the finally clause has run)         *)
(***************************************************************************)
Started(c) == pc[c] \in {"user", "list", "enrich", "rjobs", "rretry"}

\* The task starts: lines 217-225 up to the first await.
Begin(c) ==
    /\ Alive
    /\ pc[c] = "scheduled"
    /\ refreshing' = TRUE
    /\ pc' = [pc EXCEPT ![c] = IF current_user_id = "None" THEN "user" ELSE "list"]
    /\ UNCHANGED <<fn, seconds_until_refresh, current_user_id, heap, mrs, launched, clicks,
                   enrich, retry_mrs, failed_jobs, ui, log>>

\* A failed fetch that empties the collection.
ListFailedEmpties(c) ==
    /\ log' = Write(log, LineFetchError)
    /\ refreshing' = FALSE
    /\ pc' = [pc EXCEPT ![c] = "done"]
    /\ mrs' = 0
    /\ UNCHANGED <<current_user_id, heap, enrich, retry_mrs, failed_jobs, ui>>

\* except Exception (lines 226-228) and the finally clause: the cycle ends.
ListFailed(c) ==
    /\ log' = Write(log, LineFetchError)
    /\ refreshing' = FALSE
    /\ pc' = [pc EXCEPT ![c] = "done"]
    /\ UNCHANGED <<current_user_id, heap, mrs, enrich, retry_mrs, failed_jobs, ui>>

\* fetch_current_user_id returns or raises (lines 223-225).
RecvUserId(c, E) ==
    /\ Alive
    /\ pc[c] = "user"
    /\ \/ /\ "user" \in E.raises
          /\ ListFailed(c)
       \/ /\ current_user_id' = "uid"
          /\ pc' = [pc EXCEPT ![c] = "list"]
          /\ UNCHANGED <<refreshing, heap, mrs, enrich, retry_mrs, failed_jobs, log, ui>>
    /\ UNCHANGED <<fn, seconds_until_refresh, launched, clicks>>

\* fetch_mrs returns or raises (lines 225-248).  On a list: reconcile against
\* self.mrs, then gather the enrich tasks.  The start of an enrich task reads
\* nothing but mr.iid and issues fetch_pipeline: it is part of this step.
\* gather() of no task is already done: an empty list is committed in the same
\* step, _retry_check finds nothing and the cycle ends.
RecvMRs(c, E) ==
    /\ Alive
    /\ pc[c] = "list"
    /\ \/ /\ "list" \in E.raises
          /\ ListFailed(c)
       \/ \E L \in E.lists :
             LET fresh == [i \in 1..Len(L) |-> NewMR(L[i])]
                 new == Reconcile(SelfMrs, fresh)
             IN  /\ IF Len(L) = 0
                    THEN /\ mrs' = c
                         /\ refreshing' = FALSE
                         /\ pc' = [pc EXCEPT ![c] = "done"]
                         /\ UNCHANGED enrich
                    ELSE /\ enrich' = [enrich EXCEPT ![c] = [i \in 1..Len(L) |-> "pipeline"]]
                         /\ pc' = [pc EXCEPT ![c] = "enrich"]
                         /\ UNCHANGED <<mrs, refreshing>>
                 /\ UNCHANGED <<current_user_id, retry_mrs, failed_jobs, log, ui>>
                 /\ Heap([heap EXCEPT ![c] = new])
    /\ UNCHANGED <<fn, seconds_until_refresh, launched, clicks>>

(***************************************************************************)
(* The enrich task of the i-th MR of cycle c (lines 238-246).  enrich[c][i]*)
(* names the call it awaits: pipeline, approvals, threads, jobs, or done.  *)
(* A call that raises ends the task (except Exception: pass).              *)
(***************************************************************************)
EnrichStep(c, i, mr, next) ==
    /\ heap' = [heap EXCEPT ![c][i] = mr]
    /\ enrich' = [enrich EXCEPT ![c][i] = next]
    /\ UNCHANGED <<fn, seconds_until_refresh, refreshing, current_user_id, mrs, launched, clicks,
                   pc, retry_mrs, failed_jobs, ui, log>>

\* An enrich task whose failure ends the cycle: the exception leaves gather and
\* _do_refresh, whose finally clause runs.
EnrichRaiseEscapes(c, i) ==
    /\ pc' = [pc EXCEPT ![c] = "crashed"]
    /\ enrich' = [enrich EXCEPT ![c] = << >>]
    /\ refreshing' = FALSE
    /\ UNCHANGED <<fn, seconds_until_refresh, current_user_id, mrs, launched, clicks,
                   retry_mrs, failed_jobs, ui, log>>
    /\ Heap(heap)

\* The call the task awaits raises: except Exception: pass (lines 245-246) ends
\* the task and leaves the MR as it is.
EnrichRaise(c, i) == EnrichStep(c, i, heap[c][i], "done")

EnrichAwaits(c, i, what) ==
    /\ Alive
    /\ pc[c] = "enrich"
    /\ i \in 1..Len(enrich[c])
    /\ enrich[c][i] = what

RecvPipeline(c, i, E) ==
    /\ EnrichAwaits(c, i, "pipeline")
    /\ \/ /\ "pipeline" \in E.raises
          /\ EnrichRaise(c, i)
       \/ \E st \in E.pipelines :
             EnrichStep(c, i, [heap[c][i] EXCEPT !.pipeline = PipelineOf(heap[c][i].iid, st)],
                        "approvals")

RecvApprovals(c, i, E) ==
    /\ EnrichAwaits(c, i, "approvals")
    /\ \/ /\ "approvals" \in E.raises
          /\ EnrichRaise(c, i)
       \/ EnrichStep(c, i, [heap[c][i] EXCEPT !.approved = SrvApproved(heap[c][i].iid)],
                     "threads")

RecvThreads(c, i, E) ==
    /\ EnrichAwaits(c, i, "threads")
    /\ \/ /\ "threads" \in E.raises
          /\ EnrichRaise(c, i)
       \/ EnrichStep(c, i,
                     [heap[c][i] EXCEPT !.unresolved_threads = SrvThreads(heap[c][i].iid)],
                     IF WantsJobs(heap[c][i]) THEN "jobs" ELSE "done")

RecvJobs(c, i, E) ==
    /\ EnrichAwaits(c, i, "jobs")
    /\ \/ /\ "jobs" \in E.raises
          /\ EnrichRaise(c, i)
       \/ \E jl \in E.jobs :
             EnrichStep(c, i, [heap[c][i] EXCEPT !.pipeline.jobs = jl], "done")

(***************************************************************************)
(* The auto-retry controller (main.py: _auto_retry_mr, _retry_check).      *)
(***************************************************************************)
\* An _auto_retry_mr that writes nothing when no job qualifies.
AutoRetryStartSilent(mr, L) ==
    IF mr.pipeline = NoPipeline \/ FailedJobs(mr) = << >>
    THEN [log |-> L, failed_jobs |-> << >>]
    ELSE [log |-> Write(L, LineRetrying(mr.iid, Head(FailedJobs(mr)))),
          failed_jobs |-> FailedJobs(mr)]

\* _auto_retry_mr from its call to its first await (lines 307-322): the log
\* after it and the jobs it still has to retry (the head: the request it awaits;
\* none: it has returned).
AutoRetryStart(mr, L) ==
    IF mr.pipeline = NoPipeline
    THEN [log |-> L, failed_jobs |-> << >>]
    ELSE IF FailedJobs(mr) = << >>
    THEN [log |-> Write(L, LineNoop(mr.iid)), failed_jobs |-> << >>]
    ELSE [log |-> Write(L, LineRetrying(mr.iid, Head(FailedJobs(mr)))),
          failed_jobs |-> FailedJobs(mr)]

\* An _auto_retry_mr that announces the next request before it records the
\* result of the one that returned.
AutoRetryResumeEager(k, fj, ok, L) ==
    LET res == IF ok THEN LineOk ELSE LineFailed
    IN  IF Tail(fj) = << >>
        THEN [log |-> Write(L, res), failed_jobs |-> << >>]
        ELSE [log |-> Write(Write(L, LineRetrying(k, Head(Tail(fj)))), res),
              failed_jobs |-> Tail(fj)]

\* _auto_retry_mr when retry_job returns (ok, err): lines 323-326, then the
\* next turn of the loop up to its await (lines 317-322).
AutoRetryResume(k, fj, ok, L) ==
    LET L1 == Write(L, IF ok THEN LineOk ELSE LineFailed)
    IN  IF Tail(fj) = << >>
        THEN [log |-> L1, failed_jobs |-> << >>]
        ELSE [log |-> Write(L1, LineRetrying(k, Head(Tail(fj)))), failed_jobs |-> Tail(fj)]

\* _retry_check after _auto_retry_mr of cycle c has got to r (lines 333-338):
\* await the next retry request, or go on to the next MR and await its
\* fetch_jobs, or leave the loop, return and run the finally clause.
PassContinue(c, r) ==
    /\ log' = r.log
    /\ failed_jobs' = [failed_jobs EXCEPT ![c] = r.failed_jobs]
    /\ IF r.failed_jobs # << >>
       THEN /\ pc' = [pc EXCEPT ![c] = "rretry"]
            /\ UNCHANGED <<retry_mrs, enrich, refreshing>>
       ELSE IF Tail(retry_mrs[c]) # << >>
       THEN /\ pc' = [pc EXCEPT ![c] = "rjobs"]
            /\ retry_mrs' = [retry_mrs EXCEPT ![c] = Tail(@)]
            /\ UNCHANGED <<enrich, refreshing>>
       ELSE /\ pc' = [pc EXCEPT ![c] = "done"]
            /\ retry_mrs' = [retry_mrs EXCEPT ![c] = << >>]
            /\ enrich' = [enrich EXCEPT ![c] = << >>]
            /\ refreshing' = FALSE

\* A gather that is not awaited: the cycle goes on at once.
GatherNotAwaited(c) == TRUE

\* Some enrich task of cycle c has ended.
AnyEnriched(c) == \E i \in 1..Len(enrich[c]) : enrich[c][i] = "done"

\* Every enrich task of cycle c has ended.
AllEnriched(c) == \A i \in 1..Len(enrich[c]) : enrich[c][i] = "done"

\* gather returns (lines 250-255): the list is committed and rendered, and
\* _retry_check runs up to its first await of fetch_jobs, or returns.
Commit(c) ==
    /\ Alive
    /\ pc[c] = "enrich"
    /\ AllEnriched(c)
    /\ mrs' = c
    /\ IF RetryMrs(heap[c]) = << >>
       THEN /\ pc' = [pc EXCEPT ![c] = "done"]
            /\ enrich' = [enrich EXCEPT ![c] = << >>]
            /\ refreshing' = FALSE
            /\ UNCHANGED retry_mrs
       ELSE /\ pc' = [pc EXCEPT ![c] = "rjobs"]
            /\ retry_mrs' = [retry_mrs EXCEPT ![c] = RetryMrs(heap[c])]
            /\ UNCHANGED <<enrich, refreshing>>
    /\ UNCHANGED <<fn, seconds_until_refresh, current_user_id, launched, clicks,
                   failed_jobs, ui, log>>
    /\ Heap(heap)

\* fetch_jobs of _retry_check returns or raises (lines 334-338): a raise is
\* passed over and the jobs loaded before are kept; then _auto_retry_mr starts.
RetryJobsGot(c, i, jl) ==
    /\ PassContinue(c, AutoRetryStart([heap[c][i] EXCEPT !.pipeline.jobs = jl], log))
    /\ UNCHANGED <<mrs, ui>>
    /\ Heap([heap EXCEPT ![c][i].pipeline.jobs = jl])

RecvRetryJobs(c, E) ==
    /\ Alive
    /\ pc[c] = "rjobs"
    /\ LET i == Pos(heap[c], Head(retry_mrs[c]))
       IN  \/ /\ "jobs" \in E.raises
              /\ RetryJobsGot(c, i, heap[c][i].pipeline.jobs)
           \/ \E jl \in E.jobs : RetryJobsGot(c, i, jl)
    /\ UNCHANGED <<fn, seconds_until_refresh, current_user_id, launched, clicks>>

\* retry_job of the cycle's _auto_retry_mr returns (ok, err) or raises.  A raise
\* is caught nowhere: it ends _retry_check and _do_refresh, whose finally clause
\* runs; the task ends with the exception.
RecvRetry(c, E) ==
    /\ Alive
    /\ pc[c] = "rretry"
    /\ \E res \in E.retries :
          IF res = "raise"
          THEN /\ pc' = [pc EXCEPT ![c] = "crashed"]
               /\ refreshing' = FALSE
               /\ retry_mrs' = [retry_mrs EXCEPT ![c] = << >>]
               /\ failed_jobs' = [failed_jobs EXCEPT ![c] = << >>]
               /\ enrich' = [enrich EXCEPT ![c] = << >>]
               /\ UNCHANGED log
          ELSE PassContinue(c, AutoRetryResume(Head(retry_mrs[c]), failed_jobs[c],
                                               res = "ok", log))
    /\ UNCHANGED <<fn, seconds_until_refresh, current_user_id, mrs, launched, clicks, ui>>
    /\ Heap(heap)

(***************************************************************************)
(* The user's handlers (main.py: action_toggle_retry,                      *)
(* on_data_table_row_selected).  The message pump awaits a handler before  *)
(* it takes the next message, so at most one of them is in flight: ui.pc   *)
(*   idle     none                                                         *)
(*   tjobs    action_toggle_retry awaits fetch_jobs (line 386)             *)
(*   tretry   its _auto_retry_mr awaits retry_job(Head(ui.failed_jobs))    *)
(*   xjobs    on_data_table_row_selected awaits fetch_jobs (line 394)      *)
(*   crashed  a handler raised                                             *)
(* ui.c, ui.iid: the MR object the handler holds, heap[ui.c] of iid ui.iid.*)
(* The handlers act on an MR of self.mrs (the selected row).               *)
(***************************************************************************)
\* The handler's _auto_retry_mr has got to r: it awaits a retry or has returned.
UiContinue(c, k, r) ==
    /\ log' = r.log
    /\ ui' = IF r.failed_jobs # << >>
             THEN [pc |-> "tretry", c |-> c, iid |-> k, failed_jobs |-> r.failed_jobs]
             ELSE UiIdle

\* action_toggle_retry up to its first await (lines 376-387).
ToggleRetry(k, E) ==
    /\ Alive
    /\ ui.pc = "idle"
    /\ HasMR(SelfMrs, k)
    /\ clicks < E.clicks
    /\ clicks' = clicks + 1
    /\ LET i == Pos(SelfMrs, k)
           mr == [SelfMrs[i] EXCEPT !.auto_retry = ~@]
           L1 == Write(log, LineToggle(k, mr.auto_retry))
       IN  /\ heap' = [heap EXCEPT ![mrs][i] = mr]
           /\ IF ~mr.auto_retry
              THEN /\ log' = L1
                   /\ ui' = UiIdle
              ELSE IF mr.pipeline # NoPipeline /\ mr.pipeline.jobs = << >>
              THEN /\ log' = L1
                   /\ ui' = [pc |-> "tjobs", c |-> mrs, iid |-> k, failed_jobs |-> << >>]
              ELSE UiContinue(mrs, k, AutoRetryStart(mr, L1))
    /\ UNCHANGED <<fn, seconds_until_refresh, refreshing, current_user_id, mrs, launched,
                   pc, enrich, retry_mrs, failed_jobs>>

\* A handler ends by an exception.
UiCrash ==
    /\ ui' = [ui EXCEPT !.pc = "crashed"]
    /\ UNCHANGED <<heap, log>>

\* fetch_jobs of action_toggle_retry returns or raises (lines 386-387).
RecvToggleJobs(E) ==
    /\ ui.pc = "tjobs"
    /\ UNCHANGED <<fn, seconds_until_refresh, refreshing, current_user_id, mrs, launched, clicks,
                   pc, enrich, retry_mrs, failed_jobs>>
    /\ LET i == Pos(heap[ui.c], ui.iid)
       IN  \/ /\ "jobs" \in E.raises
              /\ UiCrash
           \/ \E jl \in E.jobs :
                 /\ UiContinue(ui.c, ui.iid,
                               AutoRetryStart([heap[ui.c][i] EXCEPT !.pipeline.jobs = jl], log))
                 /\ Heap([heap EXCEPT ![ui.c][i].pipeline.jobs = jl])

\* retry_job of the handler's _auto_retry_mr returns (ok, err) or raises.
RecvToggleRetry(E) ==
    /\ ui.pc = "tretry"
    /\ UNCHANGED <<fn, seconds_until_refresh, refreshing, current_user_id, mrs, launched, clicks,
                   pc, enrich, retry_mrs, failed_jobs>>
    /\ \E res \in E.retries :
          IF res = "raise"
          THEN UiCrash
          ELSE /\ UiContinue(ui.c, ui.iid,
                             AutoRetryResume(ui.iid, ui.failed_jobs, res = "ok", log))
               /\ Heap(heap)

\* on_data_table_row_selected up to its await, or to its end (lines 390-396).
ToggleExpand(k, E) ==
    /\ Alive
    /\ ui.pc = "idle"
    /\ HasMR(SelfMrs, k)
    /\ clicks < E.clicks
    /\ clicks' = clicks + 1
    /\ LET i == Pos(SelfMrs, k)
           mr == [SelfMrs[i] EXCEPT !.expanded = ~@]
       IN  /\ heap' = [heap EXCEPT ![mrs][i] = mr]
           /\ ui' = IF mr.expanded /\ mr.pipeline # NoPipeline /\ mr.pipeline.jobs = << >>
                    THEN [pc |-> "xjobs", c |-> mrs, iid |-> k, failed_jobs |-> << >>]
                    ELSE UiIdle
    /\ UNCHANGED <<fn, seconds_until_refresh, refreshing, current_user_id, mrs, launched,
                   pc, enrich, retry_mrs, failed_jobs, log>>

\* fetch_jobs of on_data_table_row_selected returns or raises (lines 394-395).
RecvExpandJobs(E) ==
    /\ ui.pc = "xjobs"
    /\ UNCHANGED <<fn, seconds_until_refresh, refreshing, current_user_id, mrs, launched, clicks,
                   pc, enrich, retry_mrs, failed_jobs>>
    /\ \/ /\ "jobs" \in E.raises
          /\ UiCrash
       \/ \E jl \in E.jobs :
             /\ ui' = UiIdle
             /\ UNCHANGED log
             /\ Heap([heap EXCEPT ![ui.c][Pos(heap[ui.c], ui.iid)].pipeline.jobs = jl])

(***************************************************************************)
(* Specifications.                                                         *)
(***************************************************************************)
CycleStep(E) ==
    \E c \in Cycles :
        \/ Begin(c)
        \/ RecvUserId(c, E)
        \/ RecvMRs(c, E)
        \/ \E i \in Positions : RecvPipeline(c, i, E)
        \/ \E i \in Positions : RecvApprovals(c, i, E)
        \/ \E i \in Positions : RecvThreads(c, i, E)
        \/ \E i \in Positions : RecvJobs(c, i, E)
        \/ Commit(c)
        \/ RecvRetryJobs(c, E)
        \/ RecvRetry(c, E)

UiStep(E) ==
    \/ \E k \in IIDs : ToggleRetry(k, E) \/ ToggleExpand(k, E)
    \/ RecvToggleJobs(E)
    \/ RecvToggleRetry(E)
    \/ RecvExpandJobs(E)

\* The steps of the program but the timer's.
Steps(E) == ForceRefresh(E) \/ CycleStep(E) \/ UiStep(E)

\* The program.
Next == Tick(EnvSched) \/ Steps(EnvSched)

Spec == Init /\ [][Next]_vars

\* The program while the timer does not fire (the countdown does not act on
\* anything but the timer's own trigger), in environments richer in data.
NextFlags == Steps(EnvFlags)

SpecFlags == Init /\ [][NextFlags]_vars

NextDrop == Steps(EnvDrop)

SpecDrop == Init /\ [][NextDrop]_vars

NextRetry == Steps(EnvRetry)

SpecRetry == Init /\ [][NextRetry]_vars

NextEnrich == Steps(EnvEnrich)

SpecEnrich == Init /\ [][NextEnrich]_vars

(***************************************************************************)
(* Properties.                                                             *)
(***************************************************************************)
\* The flags of MR k of list L.
Flags(L, k) == <<L[Pos(L, k)].auto_retry, L[Pos(L, k)].expanded>>

\* C1: when a cycle reconciles the list it fetched (the step in which fetch_mrs
\* returns a list), every MR of the reconciled list has the auto_retry and the
\* expanded of the MR of the same iid in the previous collection (self.mrs as
\* the step finds it) if there is one, and (FALSE, FALSE) if there is none.
ReconcileCarriesFlags ==
    [][\A c \in Cycles :
          (pc[c] = "list" /\ pc'[c] = "enrich") =>
              \A i \in 1..Len(heap'[c]) :
                  Flags(heap'[c], heap'[c][i].iid) =
                      IF HasMR(SelfMrs, heap'[c][i].iid)
                      THEN Flags(SelfMrs, heap'[c][i].iid)
                      ELSE <<FALSE, FALSE>>]_vars

\* A cycle has just reconciled a list with an MR that carries both flags set
\* from the previous collection, and an MR the previous collection has not.
ReconcileCarriedAndFresh ==
    \E c \in Cycles :
        /\ pc[c] = "enrich"
        /\ mrs # c
        /\ \A i \in 1..Len(enrich[c]) : enrich[c][i] = "pipeline"
        /\ \E i, j \in 1..Len(heap[c]) :
              /\ HasMR(SelfMrs, heap[c][i].iid)
              /\ Flags(SelfMrs, heap[c][i].iid) = <<TRUE, TRUE>>
              /\ Flags(heap[c], heap[c][i].iid) = <<TRUE, TRUE>>
              /\ ~HasMR(SelfMrs, heap[c][j].iid)
              /\ Flags(heap[c], heap[c][j].iid) = <<FALSE, FALSE>>

\* C2: a flag the user set survives a refresh: when a cycle commits its list,
\* every MR of it that the collection held until then has the flags it had in
\* that collection (the values the user last set), whenever the user set them.
ToggleSurvivesCommit ==
    [][\A c \in Cycles :
          (mrs # c /\ mrs' = c) =>
              \A i \in 1..Len(heap'[c]) :
                  HasMR(SelfMrs, heap'[c][i].iid) =>
                      Flags(heap'[c], heap'[c][i].iid) = Flags(SelfMrs, heap'[c][i].iid)]_vars

\* C3: the flags of a dropped MR are retained nowhere: when the collection
\* passes from the list committed by a cycle c, which has no MR k, to the list
\* of a later cycle d, which has one, that MR k has both flags off.
DroppedFlagsDiscarded ==
    [][\A c, d \in Cycles :
          (c < d /\ mrs = c /\ mrs' = d) =>
              \A i \in 1..Len(heap'[d]) :
                  ~HasMR(heap[c], heap'[d][i].iid) =>
                      Flags(heap'[d], heap'[d][i].iid) = <<FALSE, FALSE>>]_vars

\* A job auto-retry has to select: failed, and not allowed to fail.
Qualifies(j) == j.status = "failed" /\ j.allow_failure = FALSE

Qualifying(jl) == SelectSeq(jl, Qualifies)

InList(j, jl) == \E n \in 1..Len(jl) : jl[n] = j

\* The job list of MR k of list L.
JobsOf(L, k) == L[Pos(L, k)].pipeline.jobs

\* The step in which _retry_check of cycle c invokes _auto_retry_mr.
PassInvokes(c) == pc[c] = "rjobs" /\ (pc'[c] # "rjobs" \/ retry_mrs'[c] # retry_mrs[c])

\* The step in which action_toggle_retry invokes _auto_retry_mr after its
\* fetch_jobs.
ToggleInvokesLate == ui.pc = "tjobs" /\ ui'.pc \in {"idle", "tretry"}

\* The step in which action_toggle_retry turns auto_retry of MR k on and
\* invokes _auto_retry_mr at once.
ToggleInvokesAtOnce(k) ==
    /\ ui.pc = "idle"
    /\ ui'.pc # "tjobs"
    /\ mrs' = mrs
    /\ HasMR(SelfMrs, k)
    /\ ~Flags(SelfMrs, k)[1]
    /\ Flags(heap'[mrs], k)[1]

\* C4: auto-retry selects exactly the qualifying jobs, on both triggers: an
\* invocation of _auto_retry_mr (by the pass of a cycle, by the toggle) selects
\* all the jobs of the job list the MR has at the invocation that are failed
\* and not allowed to fail, and no other; the requests it issues go to the
\* selected jobs, one after the other; so the target of a request is always a
\* failed job that is not allowed to fail.
RetrySelectionExact ==
    [][/\ \A c \in Cycles :
             /\ (PassInvokes(c) /\ heap'[c] # << >>) =>
                    failed_jobs'[c] = Qualifying(JobsOf(heap'[c], Head(retry_mrs[c])))
             /\ (pc[c] = "rretry" /\ pc'[c] = "rretry") =>
                    failed_jobs'[c] \in {failed_jobs[c], Tail(failed_jobs[c])}
             /\ pc'[c] = "rretry" => Qualifies(Head(failed_jobs'[c]))
       /\ (ToggleInvokesLate /\ heap'[ui.c] # << >>) =>
              ui'.failed_jobs = Qualifying(JobsOf(heap'[ui.c], ui.iid))
       /\ \A k \in IIDs :
              ToggleInvokesAtOnce(k) => ui'.failed_jobs = Qualifying(JobsOf(heap'[mrs], k))
       /\ (ui.pc = "tretry" /\ ui'.pc = "tretry") =>
              ui'.failed_jobs \in {ui.failed_jobs, Tail(ui.failed_jobs)}
       /\ ui'.pc = "tretry" => Qualifies(Head(ui'.failed_jobs))]_vars

\* The pass of a cycle awaits the retry of JobTest, the one job it selected of
\* <<JobBuild, JobTest, JobLint>>, while the toggle of another MR awaits the
\* retry of the first of the jobs it selected.
RetryRequestsInFlight ==
    \E c \in Cycles :
        /\ pc[c] = "rretry"
        /\ failed_jobs[c] = <<JobTest>>
        /\ JobsOf(heap[c], Head(retry_mrs[c])) = <<JobBuild, JobTest, JobLint>>
        /\ ui.pc = "tretry"
        /\ ui.iid # Head(retry_mrs[c])
        /\ ui.failed_jobs = <<JobUnit, JobTest>>
        /\ JobsOf(heap[ui.c], ui.iid) = <<JobUnit, JobTest>>

\* C4 as stated: whenever a retry request is issued, its target is a failed job,
\* not allowed to fail, of the job list the MR has at that moment.
RetryTargetsCurrentList ==
    [][/\ \A c \in Cycles :
             (pc'[c] = "rretry" /\ (pc[c] # "rretry" \/ failed_jobs'[c] # failed_jobs[c])) =>
                 /\ Qualifies(Head(failed_jobs'[c]))
                 /\ InList(Head(failed_jobs'[c]), JobsOf(heap'[c], Head(retry_mrs'[c])))
       /\ (ui'.pc = "tretry" /\ ui' # ui) =>
              /\ Qualifies(Head(ui'.failed_jobs))
              /\ InList(Head(ui'.failed_jobs), JobsOf(heap'[ui'.c], ui'.iid))]_vars

\* C5: a retry request that fails, by an error result or by raising, blocks no
\* other: when retry_job ends for the pass of cycle c, whatever the outcome, the
\* pass issues the request for the next selected job of the MR if there is one,
\* and else goes on to the next auto-retry MR if there is one.
RetryFailureDoesNotBlock ==
    [][\A c \in Cycles :
          (pc[c] = "rretry" /\ (pc'[c] # "rretry" \/ failed_jobs'[c] # failed_jobs[c])) =>
              IF Tail(failed_jobs[c]) # << >>
              THEN pc'[c] = "rretry" /\ failed_jobs'[c] = Tail(failed_jobs[c])
              ELSE Tail(retry_mrs[c]) # << >> =>
                       pc'[c] = "rjobs" /\ retry_mrs'[c] = Tail(retry_mrs[c])]_vars

\* C7: no failure of a remote call escapes: no refresh cycle and no handler ends
\* by an exception.
NoFailureEscapes == (\A c \in Cycles : pc[c] # "crashed") /\ ui.pc # "crashed"

\* C8: while a refresh cycle has started and not ended, the in-flight indicator
\* is set.
RefreshingWhileInFlight == (\E c \in Cycles : Started(c)) => refreshing

\* C6: the enrichment of an MR is isolated.  While cycle c awaits its enrich
\* tasks, a step is a step of one task (c, i), whether its fetch returns or
\* raises: it leaves every other MR of the list and every other task as they
\* are, and the cycle goes on awaiting; or it is the commit, once every task has
\* ended: the list becomes the collection as the tasks left it, and the
\* auto-retry pass runs (it awaits a job fetch if an MR has auto_retry and a
\* pipeline, and has nothing to do if none has); or it is a step of another
\* cycle or of a handler, which leaves the list and the tasks of c as they are.
EnrichIsolated ==
    [][\A c \in Cycles :
          pc[c] = "enrich" =>
              \/ pc'[c] = "enrich" /\ enrich'[c] = enrich[c] /\ heap'[c] = heap[c]
              \/ /\ pc'[c] = "enrich"
                 /\ \E i \in 1..Len(enrich[c]) :
                       /\ enrich[c][i] # "done"
                       /\ enrich'[c][i] # enrich[c][i]
                       /\ \A j \in 1..Len(enrich[c]) :
                             j # i => enrich'[c][j] = enrich[c][j] /\ heap'[c][j] = heap[c][j]
              \/ /\ \A i \in 1..Len(enrich[c]) : enrich[c][i] = "done"
                 /\ mrs' = c
                 /\ heap'[c] = heap[c]
                 /\ IF \E i \in 1..Len(heap[c]) :
                          heap[c][i].auto_retry /\ heap[c][i].pipeline # NoPipeline
                    THEN pc'[c] = "rjobs"
                    ELSE pc'[c] = "done"]_vars

\* A cycle has committed a list in which the enrichment of one MR failed at its
\* first fetch (nothing of it is loaded) and another MR is fully enriched, and
\* its auto-retry pass runs.
EnrichFailedBesideEnriched ==
    \E c \in Cycles :
        /\ mrs = c
        /\ pc[c] \in {"rjobs", "rretry"}
        /\ \E i, j \in 1..Len(heap[c]) :
              /\ heap[c][i].pipeline = NoPipeline
              /\ heap[c][i].approved = "None"
              /\ heap[c][i].unresolved_threads = 0
              /\ heap[c][j].pipeline # NoPipeline
              /\ heap[c][j].approved = SrvApproved(heap[c][j].iid)
              /\ heap[c][j].unresolved_threads = SrvThreads(heap[c][j].iid)
              /\ heap[c][j].pipeline.jobs # << >>

\* C9: a trigger resets the countdown and launches exactly one cycle, and
\* touches no other cycle.  A step that launches launches one cycle, leaves the
\* countdown at REFRESH_INTERVAL, whatever it was, and every other cycle where
\* it stands, in flight or not; a step that changes the countdown is a tick
\* that decrements it above 1, launching nothing, or a trigger (the tick at 1,
\* a force refresh) that resets it and launches a cycle.
TriggerLaunchesOne ==
    [][/\ launched' # launched =>
             /\ launched' = launched + 1
             /\ seconds_until_refresh' = REFRESH_INTERVAL
             /\ pc[launched'] = "idle"
             /\ pc'[launched'] = "scheduled"
             /\ \A c \in Cycles : c # launched' => pc'[c] = pc[c]
       /\ seconds_until_refresh' # seconds_until_refresh =>
             \/ /\ seconds_until_refresh > 1
                /\ seconds_until_refresh' = seconds_until_refresh - 1
                /\ launched' = launched
             \/ /\ seconds_until_refresh' = REFRESH_INTERVAL
                /\ launched' = launched + 1
       /\ seconds_until_refresh' \in 1..REFRESH_INTERVAL]_vars

\* Two cycles are in flight at once, the second launched by the expiry of the
\* countdown or by a force refresh while the countdown ran.
TwoCyclesInFlight ==
    /\ launched = 2
    /\ Started(1)
    /\ Started(2)
    /\ refreshing
    /\ seconds_until_refresh < REFRESH_INTERVAL

\* C10: the phases of a cycle follow one another.  Before its fetch_mrs has
\* returned a cycle has no list, no enrich task and no pass; the step in which
\* fetch_mrs returns reads the flags of the collection as it is then, and only
\* then issues the first fetch of every enrich task; while it awaits the tasks
\* the cycle has not committed and its pass has issued nothing; the list is
\* committed, and a job fetch or a retry of the pass awaited, only when every
\* enrich task has ended.
PhasesInOrder ==
    [][\A c \in Cycles :
          /\ pc'[c] \in {"idle", "scheduled", "user", "list"} =>
                 /\ heap'[c] = << >>
                 /\ enrich'[c] = << >>
                 /\ retry_mrs'[c] = << >>
                 /\ failed_jobs'[c] = << >>
          /\ (pc[c] = "list" /\ pc'[c] = "enrich") =>
                 \A i \in 1..Len(heap'[c]) :
                     /\ enrich'[c][i] = "pipeline"
                     /\ heap'[c][i].pipeline = NoPipeline
                     /\ HasMR(SelfMrs, heap'[c][i].iid) =>
                            Flags(heap'[c], heap'[c][i].iid) = Flags(SelfMrs, heap'[c][i].iid)
          /\ pc'[c] = "enrich" =>
                 /\ pc[c] \in {"list", "enrich"}
                 /\ mrs' # c
                 /\ Len(heap'[c]) > 0
                 /\ Len(enrich'[c]) = Len(heap'[c])
                 /\ retry_mrs'[c] = << >>
                 /\ failed_jobs'[c] = << >>
          /\ pc'[c] \in {"rjobs", "rretry"} =>
                 /\ pc[c] \in {"enrich", "rjobs", "rretry"}
                 /\ Len(enrich'[c]) = Len(heap'[c])
                 /\ \A i \in 1..Len(enrich'[c]) : enrich'[c][i] = "done"
          /\ (mrs # c /\ mrs' = c) =>
                 /\ pc[c] \in {"list", "enrich"}
                 /\ \A i \in 1..Len(enrich[c]) : enrich[c][i] = "done"]_vars

\* The pass of a cycle awaits a retry after a list of two MRs was enriched, one
\* task having ended by a failure.
PassAfterEnrichment ==
    \E c \in Cycles :
        /\ pc[c] = "rretry"
        /\ Len(enrich[c]) = 2
        /\ \A i \in 1..2 : enrich[c][i] = "done"
        /\ \E i \in 1..2 : heap[c][i].approved = "None"

\* C11: no partial commit: the collection the table shows is never the list of
\* a cycle that still awaits an enrich task.
NoPartialCommit ==
    \A c \in Cycles :
        mrs = c => /\ pc[c] \notin {"user", "list", "enrich"}
                   /\ \A i \in 1..Len(enrich[c]) : enrich[c][i] = "done"

\* A cycle holds a list of which one MR is enriched and the other is awaited,
\* and the collection is still the list an earlier cycle committed.
ListHeldBackWhileEnriching ==
    \E c, d \in Cycles :
        /\ mrs = c
        /\ c # d
        /\ pc[d] = "enrich"
        /\ \E i, j \in 1..Len(enrich[d]) :
              /\ enrich[d][i] = "done"
              /\ heap[d][i].approved # "None"
              /\ enrich[d][j] \notin {"done", "pipeline"}

\* The last line of the log.
LastLine(L) == L[Len(L)]

\* C12: the no-op entry.  An invocation of _auto_retry_mr on an MR with a
\* pipeline (by the pass of a cycle, by the toggle after its job fetch, by the
\* toggle at once) in which no job of the MR's job list qualifies writes one
\* no-op line for the MR and nothing else, and issues no retry request; one in
\* which a job qualifies writes no no-op line: it writes the line of its first
\* request and awaits that request.
NoopEntryWhenNothingToRetry ==
    [][/\ \A c \in Cycles :
             PassInvokes(c) =>
                 LET k == Head(retry_mrs[c])
                 IN  IF pc'[c] = "rretry"
                     THEN /\ Qualifying(JobsOf(heap'[c], k)) # << >>
                          /\ log' = Write(log, LineRetrying(k, Head(Qualifying(JobsOf(heap'[c], k)))))
                     ELSE /\ heap'[c] # << >> => Qualifying(JobsOf(heap'[c], k)) = << >>
                          /\ log' = Write(log, LineNoop(k))
       /\ ToggleInvokesLate =>
             IF ui'.pc = "tretry"
             THEN /\ Qualifying(JobsOf(heap'[ui.c], ui.iid)) # << >>
                  /\ log' = Write(log, LineRetrying(ui.iid,
                                      Head(Qualifying(JobsOf(heap'[ui.c], ui.iid)))))
             ELSE /\ heap'[ui.c] # << >> => Qualifying(JobsOf(heap'[ui.c], ui.iid)) = << >>
                  /\ log' = Write(log, LineNoop(ui.iid))
       /\ \A k \in IIDs :
             (ToggleInvokesAtOnce(k) /\ SelfMrs[Pos(SelfMrs, k)].pipeline # NoPipeline) =>
                 LET L1 == Write(log, LineToggle(k, TRUE))
                     q == Qualifying(JobsOf(heap'[mrs], k))
                 IN  IF q = << >>
                     THEN ui'.pc = "idle" /\ log' = Write(L1, LineNoop(k))
                     ELSE ui'.pc = "tretry" /\ log' = Write(L1, LineRetrying(k, Head(q)))]_vars

\* The pass of a cycle has just written the no-op line of an MR whose only job
\* failed and is allowed to fail; no retry request is in flight.
NoopWrittenForAllowedFailure ==
    /\ mrs \in Cycles
    /\ log # << >>
    /\ LastLine(log).kind = "noop"
    /\ HasMR(SelfMrs, LastLine(log).iid)
    /\ JobsOf(SelfMrs, LastLine(log).iid) = <<JobLint>>
    /\ ui.pc = "idle"
    /\ \A c \in Cycles : pc[c] # "rretry"

(***************************************************************************)
(* fuzzy_match (src/widgets.py).  A string is the sequence of its          *)
(* characters; positions are counted from 0, as Python counts them.        *)
(***************************************************************************)
\* The program's variables.
prog == <<seconds_until_refresh, refreshing, current_user_id, heap, mrs, launched,
          pc, enrich, retry_mrs, failed_jobs, ui, clicks, log>>

Alphabet == {"a", "A", "b"}

\* The strings over Alphabet of at most n characters.
Strings(n) == UNION {[1..m -> Alphabet] : m \in 0..n}

\* str.lower(), character by character.
LowerChar(ch) ==
    CASE ch = "A" -> "a"
      [] ch = "B" -> "b"
      [] ch = "D" -> "d"
      [] ch = "F" -> "f"
      [] ch = "X" -> "x"
      [] OTHER -> ch

lower(t) == [i \in 1..Len(t) |-> LowerChar(t[i])]

\* while ti < len(tl) and tl[ti] != char: ti += 1
RECURSIVE Advance(_, _, _)
Advance(tl, ti, char) ==
    IF ti < Len(tl) /\ tl[ti + 1] # char THEN Advance(tl, ti + 1, char) ELSE ti

\* for char in query.lower(): ... (lines 43-49), and the final return.
RECURSIVE FuzzyLoop(_, _, _, _)
FuzzyLoop(tl, ql, ti, indices) ==
    IF ql = << >>
    THEN [score |-> "0.0", indices |-> indices]
    ELSE LET t2 == Advance(tl, ti, Head(ql))
         IN  IF t2 >= Len(tl)
             THEN [score |-> "None", indices |-> << >>]
             ELSE FuzzyLoop(tl, Tail(ql), t2 + 1, Append(indices, t2))

\* A match that compares the characters as they are.
fuzzy_match_cased(title, query) == FuzzyLoop(title, query, 0, << >>)

fuzzy_match(title, query) == FuzzyLoop(lower(title), lower(query), 0, << >>)

InitFuzzy ==
    /\ Boot
    /\ fn \in {[op |-> "fuzzy_match", title |-> t, query |-> q, done |-> FALSE,
                score |-> "None", indices |-> << >>] :
                  t \in Strings(MaxText), q \in Strings(MaxQuery)}

\* The call fuzzy_match(fn.title, fn.query).
FuzzyMatch ==
    /\ fn.op = "fuzzy_match"
    /\ ~fn.done
    /\ fn' = [fn EXCEPT !.done = TRUE,
                        !.score = fuzzy_match(fn.title, fn.query).score,
                        !.indices = fuzzy_match(fn.title, fn.query).indices]
    /\ UNCHANGED prog

NextFuzzy == FuzzyMatch

SpecFuzzy == InitFuzzy /\ [][NextFuzzy]_vars

\* The ways to find q in t as a subsequence, case apart: the strictly
\* increasing positions (from 0) of characters of t equal to those of q.
Embeddings(t, q) ==
    {f \in [1..Len(q) -> 0..(Len(t) - 1)] :
        /\ \A i \in 1..Len(q) : LowerChar(t[f[i] + 1]) = LowerChar(q[i])
        /\ \A i \in 1..(Len(q) - 1) : f[i] < f[i + 1]}

\* C13: fuzzy_match is a case-insensitive subsequence test.  It reports a match
\* iff the query is a subsequence of the text, case apart; on a match the
\* positions are one of the ways to find the query in the text (as many as the
\* query has characters, strictly increasing, on equal characters) and the
\* leftmost one: no way has an earlier position anywhere; without a match there
\* are no positions; the empty query matches every text, with no positions.
FuzzyMatchIsSubsequenceTest ==
    (fn.op = "fuzzy_match" /\ fn.done) =>
        /\ (fn.score # "None") <=> (Embeddings(fn.title, fn.query) # {})
        /\ fn.score # "None" =>
               /\ fn.indices \in Embeddings(fn.title, fn.query)
               /\ \A f \in Embeddings(fn.title, fn.query) :
                      \A i \in 1..Len(fn.query) : fn.indices[i] <= f[i]
        /\ fn.score = "None" => fn.indices = << >>
        /\ fn.query = << >> => fn.score # "None" /\ fn.indices = << >>

\* A query of two characters has matched a text on characters of the other case
\* that are not next to each other, a later way to find it existing too.
FuzzyMatchedApartAndCased ==
    /\ fn.op = "fuzzy_match"
    /\ fn.done
    /\ fn.score # "None"
    /\ Len(fn.query) = 2
    /\ fn.indices[2] > fn.indices[1] + 1
    /\ fn.title[fn.indices[1] + 1] # fn.query[1]
    /\ Cardinality(Embeddings(fn.title, fn.query)) > 1

(***************************************************************************)
(* _visible_mrs (src/main.py).  An MR is here its iid, its title and the   *)
(* assigned_to_me the scope filter reads.                                  *)
(***************************************************************************)
TitleFix == <<"F", "i", "x">>
TitleDocs == <<"D", "o", "c", "s">>
TitlePrefix == <<"P", "r", "e", "f", "i", "x">>
TitleDraftFix == <<"D", "r", "a", "f", "t", ":", "F", "i", "x">>

Titles == {TitleFix, TitleDocs, TitlePrefix, TitleDraftFix}

Queries == {<< >>, <<"f", "i", "x">>, <<"F", "X">>, <<"d">>}

\* str.startswith
StartsWith(t, p) == Len(t) >= Len(p) /\ SubSeq(t, 1, Len(p)) = p

\* MR.is_draft
is_draft(mr) == StartsWith(mr.title, <<"D", "r", "a", "f", "t", ":">>)

\* The collections of at most n MRs, the i-th of iid i.
Collections(n) ==
    UNION {{[i \in 1..m |-> [iid |-> i, title |-> c[i][1], assigned_to_me |-> c[i][2]]] :
               c \in [1..m -> Titles \X BOOLEAN]} : m \in 0..n}

\* A projection that never shows a draft.
visible_mrs_without_drafts(L, mine_only, show_drafts, search_query) ==
    LET mine == IF mine_only THEN SelectSeq(L, LAMBDA mr : mr.assigned_to_me) ELSE L
        shown == SelectSeq(mine, LAMBDA mr : ~is_draft(mr))
    IN  IF search_query # << >>
        THEN SelectSeq(shown, LAMBDA mr : fuzzy_match(mr.title, search_query).score # "None")
        ELSE shown

\* _visible_mrs (lines 262-269), of the collection L.
visible_mrs(L, mine_only, show_drafts, search_query) ==
    LET mine == IF mine_only THEN SelectSeq(L, LAMBDA mr : mr.assigned_to_me) ELSE L
        shown == IF ~show_drafts THEN SelectSeq(mine, LAMBDA mr : ~is_draft(mr)) ELSE mine
    IN  IF search_query # << >>
        THEN SelectSeq(shown, LAMBDA mr : fuzzy_match(mr.title, search_query).score # "None")
        ELSE shown

InitVisible ==
    /\ Boot
    /\ fn \in {[op |-> "visible_mrs", mrs |-> L, mine_only |-> m, show_drafts |-> d,
                search_query |-> q, done |-> FALSE, visible |-> << >>] :
                  L \in Collections(MaxShown), m \in BOOLEAN, d \in BOOLEAN, q \in Queries}

\* The call self._visible_mrs().
VisibleMrs ==
    /\ fn.op = "visible_mrs"
    /\ ~fn.done
    /\ fn' = [fn EXCEPT !.done = TRUE,
                        !.visible = visible_mrs(fn.mrs, fn.mine_only, fn.show_drafts,
                                                fn.search_query)]
    /\ UNCHANGED prog

NextVisible == VisibleMrs

SpecVisible == InitVisible /\ [][NextVisible]_vars

\* The MR passes the filters in force.
Passes(mr, mine_only, show_drafts, search_query) ==
    /\ mine_only => mr.assigned_to_me
    /\ ~show_drafts => \E i \in 1..6 : i > Len(mr.title) \/ mr.title[i] # <<"D", "r", "a", "f", "t", ":">>[i]
    /\ search_query # << >> => Embeddings(mr.title, search_query) # {}

\* C14: the visible subset is exactly the MRs of the collection that pass the
\* scope filter, the draft filter and the title match that are in force, in the
\* order of the collection (so an empty query excludes nothing), and computing
\* it changes neither the collection nor the filters nor anything of the
\* program's state.
VisibleIsOrderedFilter ==
    [][(fn.op = "visible_mrs" /\ fn'.done) =>
          /\ \A i \in 1..Len(fn'.visible) :
                 \E j \in 1..Len(fn.mrs) : fn.mrs[j] = fn'.visible[i]
          /\ \A j \in 1..Len(fn.mrs) :
                 Passes(fn.mrs[j], fn.mine_only, fn.show_drafts, fn.search_query)
                     <=> \E i \in 1..Len(fn'.visible) : fn'.visible[i] = fn.mrs[j]
          /\ \A i \in 1..(Len(fn'.visible) - 1) : fn'.visible[i].iid < fn'.visible[i + 1].iid
          /\ fn'.mrs = fn.mrs
          /\ fn'.mine_only = fn.mine_only
          /\ fn'.show_drafts = fn.show_drafts
          /\ fn'.search_query = fn.search_query
          /\ UNCHANGED prog]_vars

\* Of the MRs titled Fix, Docs and Prefix, all of them mine, the query "fix"
\* has left the first and the third.
VisibleFirstAndThird ==
    /\ fn.op = "visible_mrs"
    /\ fn.done
    /\ Len(fn.mrs) = 3
    /\ fn.mrs[1].title = TitleFix
    /\ fn.mrs[2].title = TitleDocs
    /\ fn.mrs[3].title = TitlePrefix
    /\ fn.mine_only
    /\ fn.search_query = <<"f", "i", "x">>
    /\ Len(fn.visible) = 2
    /\ fn.visible[1].iid = 1
    /\ fn.visible[2].iid = 3

\* The call an enrich task issues after the call named what, for the MR as it
\* then is, when every fetch of the MR is performed.
FetchAfter(what, mr) ==
    CASE what = "pipeline" -> "approvals"
      [] what = "approvals" -> "threads"
      [] what = "threads" -> IF WantsJobs(mr) THEN "jobs" ELSE "done"
      [] OTHER -> "done"

\* C15: when one enrichment fetch for an MR fails, the MR's other enrichment
\* fetches are still performed: whatever the outcome of the fetch an enrich
\* task awaits, the task goes on to the next fetch of its MR (approvals after
\* the pipeline, the thread count after the approvals, the conditional jobs
\* after the thread count) and ends only after the last.
EnrichFetchesAllPerformed ==
    [][\A c \in Cycles :
          (pc[c] = "enrich" /\ pc'[c] = "enrich") =>
              \A i \in 1..Len(enrich[c]) :
                  enrich'[c][i] # enrich[c][i] =>
                      enrich'[c][i] = FetchAfter(enrich[c][i], heap'[c][i])]_vars

\* C16: when the MR-list fetch of a cycle fails (the cycle ends from its first
\* awaits without committing a list), the collection and every MR of it, flags
\* and enriched fields included, are left as they were, one line noting the
\* failure is written, the in-flight indicator is cleared, and the cycle has
\* issued no enrichment fetch and no retry request.
ListFailureRecovered ==
    [][\A c \in Cycles :
          (pc[c] \in {"user", "list"} /\ pc'[c] = "done" /\ mrs' # c) =>
              /\ mrs' = mrs
              /\ heap'[mrs'] = heap[mrs]
              /\ log' = Write(log, LineFetchError)
              /\ ~refreshing'
              /\ enrich'[c] = << >>
              /\ heap'[c] = << >>
              /\ retry_mrs' = retry_mrs
              /\ failed_jobs' = failed_jobs
              /\ ui' = ui]_vars

\* The second cycle has failed to fetch the list: the first cycle's MR 1 is
\* still shown, enriched and with the auto-retry the user switched on.
ListFailedKeepsCollection ==
    /\ pc[1] = "done"
    /\ pc[2] = "done"
    /\ mrs = 1
    /\ ~refreshing
    /\ Len(heap[1]) = 1
    /\ heap[1][1].auto_retry
    /\ heap[1][1].approved # "None"
    /\ heap[1][1].pipeline # NoPipeline
    /\ heap[2] = << >>
    /\ LastLine(log) = LineFetchError

\* The step in which action_toggle_retry turns auto_retry of MR k on (to = TRUE)
\* or off.
ToggleTurns(k, to) ==
    /\ ui.pc = "idle"
    /\ mrs' = mrs
    /\ HasMR(SelfMrs, k)
    /\ Flags(SelfMrs, k)[1] = ~to
    /\ Flags(heap'[mrs], k)[1] = to

\* C17: the toggle-triggered auto-retry.  Turning auto_retry on for an MR with
\* a pipeline issues a job-list fetch iff the pipeline has no jobs loaded, and
\* one fetch only; the handler then selects the loaded jobs that are failed and
\* not allowed to fail, and issues a retry request for each of them: it does
\* not end while a selected job is left without its request.  Turning
\* auto_retry off issues no fetch and no request.
ToggleRetriesEachQualifying ==
    [][/\ \A k \in IIDs :
             /\ (ToggleTurns(k, TRUE) /\ SelfMrs[Pos(SelfMrs, k)].pipeline # NoPipeline) =>
                    /\ ui'.pc = "tjobs" <=> JobsOf(SelfMrs, k) = << >>
                    /\ ui'.pc # "tjobs" => ui'.failed_jobs = Qualifying(JobsOf(SelfMrs, k))
             /\ ToggleTurns(k, FALSE) => ui' = UiIdle
       /\ (ToggleInvokesLate /\ heap'[ui.c] # << >>) =>
              ui'.failed_jobs = Qualifying(JobsOf(heap'[ui.c], ui.iid))
       /\ (ui.pc = "tjobs" /\ ui' # ui) => ui'.pc # "tjobs"
       /\ (ui.pc = "tretry" /\ ui' # ui) =>
              /\ ui'.failed_jobs = Tail(ui.failed_jobs)
              /\ ui'.pc = "tretry" <=> Tail(ui.failed_jobs) # << >>]_vars

\* The log L after the lines of ls, in that order.
WriteAll(L, ls) == IF ls = << >> THEN L
                   ELSE IF Len(ls) = 1 THEN Write(L, ls[1])
                   ELSE Write(Write(L, ls[1]), ls[2])

\* What an invocation for MR k that awaits the request for Head(fj) may do when
\* the request returns: record the result and, if a selected job is left,
\* announce and issue the request for the next one in the order of selection.
ReturnsInOrder(k, fj, L, fj2, L2, awaiting) ==
    /\ fj2 = Tail(fj)
    /\ awaiting <=> Tail(fj) # << >>
    /\ \E res \in {LineOk, LineFailed} :
          L2 = WriteAll(L, IF Tail(fj) = << >> THEN <<res>>
                           ELSE <<res, LineRetrying(k, Head(Tail(fj)))>>)

\* C18: within one invocation of auto-retry for an MR the retry requests are
\* issued one at a time, in the order the qualifying jobs have in the job list:
\* the invocation awaits one request, that of the first job still to retry, and
\* issues the next only in the step in which the previous one has returned and
\* its result line is written; the lines of the invocation follow that order.
RetriesOneAtATimeInOrder ==
    [][/\ \A c \in Cycles :
             /\ (PassInvokes(c) /\ heap'[c] # << >> /\ pc'[c] = "rretry") =>
                    /\ failed_jobs'[c] = Qualifying(JobsOf(heap'[c], Head(retry_mrs[c])))
                    /\ LastLine(log') = LineRetrying(Head(retry_mrs[c]), Head(failed_jobs'[c]))
             /\ (pc[c] = "rretry" /\ pc'[c] # "crashed"
                     /\ <<pc'[c], failed_jobs'[c]>> # <<pc[c], failed_jobs[c]>>) =>
                    ReturnsInOrder(Head(retry_mrs[c]), failed_jobs[c], log,
                                   failed_jobs'[c], log', pc'[c] = "rretry")
       /\ (ui'.pc = "tretry" /\ ui.pc # "tretry") =>
              /\ ui'.failed_jobs = Qualifying(JobsOf(heap'[ui'.c], ui'.iid))
              /\ LastLine(log') = LineRetrying(ui'.iid, Head(ui'.failed_jobs))
       /\ (ui.pc = "tretry" /\ ui'.pc # "crashed" /\ ui' # ui) =>
              ReturnsInOrder(ui.iid, ui.failed_jobs, log, ui'.failed_jobs, log',
                             ui'.pc = "tretry")]_vars

\* Of the selected jobs unit (id 4) and test (id 2), in the order of the list,
\* the request for unit has returned and its result is written, and the toggle
\* now awaits the request for test.
SecondRetryAfterFirstResult ==
    /\ ui.pc = "tretry"
    /\ JobsOf(heap[ui.c], ui.iid) = <<JobUnit, JobTest>>
    /\ ui.failed_jobs = <<JobTest>>
    /\ Len(log) = 2
    /\ log[1] \in {LineOk, LineFailed}
    /\ log[2] = LineRetrying(ui.iid, JobTest)

\* C19: during the enrichment of a cycle a job-list fetch is issued for an MR
\* if and only if its pipeline fetch returned a pipeline and the pipeline is
\* active or the MR is expanded: an enrich task issues the fetch only for such
\* an MR, and it ends without having issued it only for an MR that is not
\* such, whose job list it leaves empty.
JobsFetchedIffWanted ==
    [][\A c \in Cycles :
          (pc[c] = "enrich" /\ pc'[c] = "enrich") =>
              \A i \in 1..Len(enrich[c]) :
                  /\ (enrich[c][i] # "jobs" /\ enrich'[c][i] = "jobs") =>
                         /\ heap'[c][i].pipeline # NoPipeline
                         /\ \/ heap'[c][i].pipeline.status
                                   \in {"running", "pending", "created", "waiting_for_resource"}
                            \/ heap'[c][i].expanded
                  /\ (enrich[c][i] \notin {"jobs", "done"} /\ enrich'[c][i] = "done") =>
                         /\ heap'[c][i].pipeline.jobs = << >>
                         /\ \/ heap'[c][i].pipeline = NoPipeline
                            \/ /\ heap'[c][i].pipeline.status
                                      \notin {"running", "pending", "created",
                                              "waiting_for_resource"}
                               /\ ~heap'[c][i].expanded]_vars

(***************************************************************************)
(* Pipeline.stages (src/models.py).                                        *)
(***************************************************************************)
StageNames == {"build", "test", "lint"}

\* The job lists of at most n jobs, of distinct ids.
JobLists(n) ==
    UNION {{jl \in [1..m -> {[id |-> i, name |-> st, stage |-> st, status |-> status,
                              allow_failure |-> FALSE] :
                                 i \in 1..MaxJobId, st \in StageNames,
                                 status \in {"failed", "success"}}] :
               \A a, b \in 1..m : a # b => jl[a].id # jl[b].id} : m \in 0..n}

\* sorted(jobs, key=lambda j: j.id): a stable sort, a job goes behind the jobs
\* before it in the list whose id is not larger.
RECURSIVE SortedById(_)
SortedById(jl) ==
    IF jl = << >> THEN << >>
    ELSE LET s == SortedById(SubSeq(jl, 1, Len(jl) - 1))
             j == jl[Len(jl)]
             n == Cardinality({i \in 1..Len(s) : s[i].id <= j.id})
         IN  SubSeq(s, 1, n) \o <<j>> \o SubSeq(s, n + 1, Len(s))

\* The loop of lines 39-41 over the jobs left, seen being the stages so far.
RECURSIVE StagesLoop(_, _)
StagesLoop(jl, seen) ==
    IF jl = << >> THEN seen
    ELSE StagesLoop(Tail(jl),
                    IF \E i \in 1..Len(seen) : seen[i] = Head(jl).stage
                    THEN seen
                    ELSE Append(seen, Head(jl).stage))

\* The stages in the order the job list has them.
stages_unsorted(p) == StagesLoop(p.jobs, << >>)

\* Pipeline.stages (lines 37-42).
stages(p) == StagesLoop(SortedById(p.jobs), << >>)

InitStages ==
    /\ Boot
    /\ fn \in {[op |-> "stages", pipeline |-> [NewPipeline(1, "failed") EXCEPT !.jobs = jl],
                done |-> FALSE, stages |-> << >>] : jl \in JobLists(MaxJobs)}

\* The read of pipeline.stages.
Stages ==
    /\ fn.op = "stages"
    /\ ~fn.done
    /\ fn' = [fn EXCEPT !.done = TRUE, !.stages = stages(fn.pipeline)]
    /\ UNCHANGED prog

NextStages == Stages

SpecStages == InitStages /\ [][NextStages]_vars

\* The smallest id of the jobs of jl of stage st.
MinId(jl, st) ==
    CHOOSE n \in 1..MaxJobId + 1 :
        /\ \E i \in 1..Len(jl) : jl[i].stage = st /\ jl[i].id = n
        /\ \A i \in 1..Len(jl) : jl[i].stage = st => jl[i].id >= n

\* The orders a job list may come in.
Reorderings(jl) ==
    {[i \in 1..Len(jl) |-> jl[f[i]]] :
        f \in {g \in [1..Len(jl) -> 1..Len(jl)] :
                  \A a, b \in 1..Len(jl) : a # b => g[a] # g[b]}}

\* C20: Pipeline.stages holds each stage that occurs among the jobs of the
\* pipeline exactly once, in ascending order of the smallest job id of the
\* stage, whatever the order of the job list; a pipeline without jobs has no
\* stage and no retry candidate.
StagesByFirstJobId ==
    (fn.op = "stages" /\ fn.done) =>
        LET jl == fn.pipeline.jobs
            st == fn.stages
        IN  /\ \A i \in 1..Len(jl) : \E n \in 1..Len(st) : st[n] = jl[i].stage
            /\ \A n \in 1..Len(st) : \E i \in 1..Len(jl) : jl[i].stage = st[n]
            /\ \A n, m \in 1..Len(st) : n < m => MinId(jl, st[n]) < MinId(jl, st[m])
            /\ \A r \in Reorderings(jl) : stages([fn.pipeline EXCEPT !.jobs = r]) = st
            /\ jl = << >> =>
                   /\ st = << >>
                   /\ FailedJobs([NewMR(1) EXCEPT !.pipeline = fn.pipeline]) = << >>

\* The stages of the jobs 3 (test), 1 (build), 2 (test), in that order, have
\* been read: build, then test.
StagesOfShuffledJobs ==
    /\ fn.op = "stages"
    /\ fn.done
    /\ Len(fn.pipeline.jobs) = 3
    /\ fn.pipeline.jobs[1].id = 3 /\ fn.pipeline.jobs[1].stage = "test"
    /\ fn.pipeline.jobs[2].id = 1 /\ fn.pipeline.jobs[2].stage = "build"
    /\ fn.pipeline.jobs[3].id = 2 /\ fn.pipeline.jobs[3].stage = "test"
    /\ fn.stages = <<"build", "test">>

\* C21: once the user has turned auto_retry of MR k off, no retry request for
\* a job of MR k is issued until the user turns it on again, whatever the
\* interleaving of the toggle with the cycles and passes in flight.  For the
\* pass over the list that is shown (the list every toggle since the start of
\* the pass has acted on): whenever the pass issues a retry request for MR k,
\* auto_retry of MR k is on.
NoRetryWhileSwitchedOff ==
    [][\A c \in Cycles :
          (/\ pc'[c] = "rretry"
           /\ pc[c] # "rretry" \/ failed_jobs'[c] # failed_jobs[c]
           /\ mrs' = c) =>
              Flags(heap'[c], Head(retry_mrs'[c]))[1]]_vars

\* C22: when refresh cycles overlap, a cycle that started earlier but commits
\* later never overwrites the collection committed by a cycle that started
\* after it: the collection shown only ever passes to the list of a cycle
\* launched later than the one whose list is shown (cycles are numbered in the
\* order of their launch, 0 being the empty collection of __init__).
LaterStartedCycleWins ==
    [][mrs' # mrs => mrs' > mrs]_vars

\* The ticks since the countdown was last set to REFRESH_INTERVAL.
TicksSinceTrigger == REFRESH_INTERVAL - seconds_until_refresh

\* C23: the countdown is an integer of 1..REFRESH_INTERVAL after __init__ and
\* after every tick and force refresh.  A tick before the REFRESH_INTERVAL-th
\* since the last trigger counts one more tick and triggers nothing; the
\* REFRESH_INTERVAL-th resets the countdown in the same step and triggers a
\* refresh; a force refresh restarts the count.
CountdownInRange ==
    /\ seconds_until_refresh = REFRESH_INTERVAL
    /\ [][/\ seconds_until_refresh' \in 1..REFRESH_INTERVAL
          /\ TicksSinceTrigger' \in 0..(REFRESH_INTERVAL - 1)
          /\ TicksSinceTrigger' # TicksSinceTrigger =>
                IF TicksSinceTrigger + 1 < REFRESH_INTERVAL
                THEN \/ /\ TicksSinceTrigger' = TicksSinceTrigger + 1
                        /\ launched' = launched
                     \/ /\ TicksSinceTrigger' = 0
                        /\ launched' = launched + 1
                ELSE /\ TicksSinceTrigger' = 0
                     /\ launched' = launched + 1
          /\ launched' # launched => TicksSinceTrigger' = 0]_vars

\* The countdown has run down to 1 since on_mount, no trigger in between: the
\* next tick is the REFRESH_INTERVAL-th.
CountdownAtOne ==
    /\ seconds_until_refresh = 1
    /\ launched = 1

====
